---- MODULE Spec2Model ----
(***************************************************************************)
(* A model of the Reolink firmware checker: the configuration store        *)
(* (config.py), the version resolver and the version comparator            *)
(* (reolink_firmware_check.py) and the command line entry point main().    *)
(*                                                                         *)
(* Python strings that the program inspects character by character         *)
(* (version strings) are sequences of one-character strings.  The Python   *)
(* value None and a value that is not a str (a TOML or JSON number) are    *)
(* the two sequences None and NotAString, which hold one token that is no  *)
(* character.  A Python call that may raise returns a record whose field   *)
(* exc says whether it raised.                                             *)
(***************************************************************************)
EXTENDS Integers, Sequences, FiniteSets, TLC

VARIABLES
    \* ---- the process run of main() ----
    file,             \* the config file on disk
    argv,             \* sys.argv[1:]
    config,           \* ReolinkConfig.config, the in-memory configuration
    pc,               \* position of the process
    exit_code,        \* the status the process ended with (read when pc = "exit")
    traceback,        \* TRUE when the process ended with an uncaught exception
    current_version,  \* main()'s local current_version
    latest_version,   \* the version the resolver or the user produced
    has_update,       \* the comparator's verdict, as main() reads it
    compared,         \* TRUE once compare_versions was called in this run
    attempted,        \* the resolver strategies that issued a request, in order
    yielded,          \* what each finished strategy returned, in the same order
    last_response,    \* what the last HTTP request came back with
    printed,          \* the kinds of message written to the terminal
    write_log,        \* the outcome of each _save_config call, in order
    \* ---- a call of one function on drawn inputs ----
    h_pc,             \* "idle", "call" or "done" ("ready" for a ReolinkConfig)
    h_in,             \* the arguments (the configuration as it was loaded)
    h_out             \* the returned value (the version of the last update)

vars == <<file, argv, config, pc, exit_code, traceback, current_version,
          latest_version, has_update, compared, attempted, yielded,
          last_response, printed, write_log, h_pc, h_in, h_out>>

(***************************************************************************)
(* Bounds of the model.                                                    *)
(***************************************************************************)
\* longest version string drawn for the comparator
MaxLen == 3
\* most firmware records in one API response
MaxRecords == 2
\* largest updated_at timestamp drawn
MaxTime == 2
\* most tokens in one HTML body
MaxTokens == 1
\* most tokens in a page handed to a fallback strategy on its own
MaxMatches == 2
\* most calls of update_firmware_version on one ReolinkConfig
MaxCalls == 2

(***************************************************************************)
(* Python values.                                                          *)
(***************************************************************************)
None == <<"None">>
NotAString == <<"<int>">>
EmptyStr == <<>>

IsStr(x) == x # None /\ x # NotAString

\* Python truthiness of None, a str or a non-zero number
Truthy(x) == x # None /\ x # EmptyStr

Ok(v) == [exc |-> FALSE, val |-> v]
Raise == [exc |-> TRUE, val |-> None]

Range(s) == {s[i] : i \in 1..Len(s)}

Digit == {"0", "1", "2", "3", "4", "5", "6", "7", "8", "9"}

DigitVal(c) ==
    CASE c = "0" -> 0 [] c = "1" -> 1 [] c = "2" -> 2 [] c = "3" -> 3
      [] c = "4" -> 4 [] c = "5" -> 5 [] c = "6" -> 6 [] c = "7" -> 7
      [] c = "8" -> 8 [] c = "9" -> 9

AllDigits(s) == \A i \in 1..Len(s) : s[i] \in Digit

\* int(s) of a string of decimal digits
RECURSIVE ToInt(_)
ToInt(s) ==
    IF s = <<>> THEN 0
    ELSE 10 * ToInt(SubSeq(s, 1, Len(s) - 1)) + DigitVal(s[Len(s)])

\* str.lower(), on the letters the model draws
LowerChar(c) == IF c = "V" THEN "v" ELSE c
str_lower(s) == [i \in 1..Len(s) |-> LowerChar(s[i])]

\* s.replace(c, '')
RECURSIVE str_remove(_, _)
str_remove(s, c) ==
    IF s = <<>> THEN <<>>
    ELSE IF Head(s) = c THEN str_remove(Tail(s), c)
    ELSE <<Head(s)>> \o str_remove(Tail(s), c)

\* s.find(c) + 1: the first position of c in s, 0 when there is none
IndexOf(s, c) ==
    IF c \in Range(s) THEN CHOOSE i \in 1..Len(s) : s[i] = c /\ \A j \in 1..(i - 1) : s[j] # c
    ELSE 0

\* s.split(c)
RECURSIVE str_split(_, _)
str_split(s, c) ==
    LET i == IndexOf(s, c) IN
    IF i = 0 THEN <<s>>
    ELSE <<SubSeq(s, 1, i - 1)>> \o str_split(SubSeq(s, i + 1, Len(s)), c)

(***************************************************************************)
(* packaging.version: Version(s) for strings of digits, '.' and '_'.  Of   *)
(* the PEP 440 grammar only the release segment N(.N)* can match such a    *)
(* string; anything else raises InvalidVersion.                            *)
(***************************************************************************)
version_parse(s) ==
    LET parts == str_split(s, ".") IN
    IF \A i \in 1..Len(parts) : parts[i] # <<>> /\ AllDigits(parts[i])
    THEN Ok([i \in 1..Len(parts) |-> ToInt(parts[i])])
    ELSE Raise

\* Version._key: the release with its trailing zeros dropped
RECURSIVE StripTrailingZeros(_)
StripTrailingZeros(r) ==
    IF r # <<>> /\ r[Len(r)] = 0 THEN StripTrailingZeros(SubSeq(r, 1, Len(r) - 1))
    ELSE r

\* Python's tuple order: a < b
RECURSIVE TupleLess(_, _)
TupleLess(a, b) ==
    IF b = <<>> THEN FALSE
    ELSE IF a = <<>> THEN TRUE
    ELSE IF Head(a) # Head(b) THEN Head(a) < Head(b)
    ELSE TupleLess(Tail(a), Tail(b))

VersionGreater(x, y) == TupleLess(StripTrailingZeros(y), StripTrailingZeros(x))
VersionEqual(x, y) == StripTrailingZeros(x) = StripTrailingZeros(y)

(***************************************************************************)
(* The version comparator.                                                 *)
(***************************************************************************)
\* what parse_version_string returns: a packaging Version or a plain str
AsVersion(r) == [kind |-> "Version", release |-> r, str |-> <<>>]
AsString(s) == [kind |-> "str", release |-> <<>>, str |-> s]

\* the mutant: the build suffix is split off and dropped
parse_version_string_DropBuild(version_str) ==
    IF ~IsStr(version_str) THEN Raise
    ELSE
      LET clean_version == str_remove(str_lower(version_str), "v")
          i == IndexOf(clean_version, "_")
          comparable_version ==
              IF i # 0 THEN SubSeq(clean_version, 1, i - 1) ELSE clean_version
          parsed == version_parse(comparable_version)
      IN Ok(IF parsed.exc THEN AsString(clean_version) ELSE AsVersion(parsed.val))

\* the mutant: the string is lower-cased but its v is kept
parse_version_string_KeepPrefix(version_str) ==
    IF ~IsStr(version_str) THEN Raise
    ELSE
      LET clean_version == str_lower(version_str)
          i == IndexOf(clean_version, "_")
          comparable_version ==
              IF i # 0
              THEN SubSeq(clean_version, 1, i - 1) \o <<".">>
                     \o SubSeq(clean_version, i + 1, Len(clean_version))
              ELSE clean_version
          parsed == version_parse(comparable_version)
      IN Ok(IF parsed.exc THEN AsString(clean_version) ELSE AsVersion(parsed.val))

parse_version_string(version_str) ==
    IF ~IsStr(version_str) THEN Raise   \* .lower() of None or of a number
    ELSE
      LET clean_version == str_remove(str_lower(version_str), "v")
          i == IndexOf(clean_version, "_")
          comparable_version ==
              IF i # 0
              THEN SubSeq(clean_version, 1, i - 1) \o <<".">>
                     \o SubSeq(clean_version, i + 1, Len(clean_version))
              ELSE clean_version
          parsed == version_parse(comparable_version)
      IN Ok(IF parsed.exc THEN AsString(clean_version) ELSE AsVersion(parsed.val))

Msg(kind, current, latest) == [kind |-> kind, current |-> current, latest |-> latest]
Verdict(u, m) == [exc |-> FALSE, has_update |-> u, message |-> m]
Propagated == [exc |-> TRUE, has_update |-> FALSE, message |-> Msg("none", None, None)]

\* the mutant: the fallback compares the cleaned strings, not the arguments
compare_try_CleanStrings(current, latest) ==
    LET current_parsed == parse_version_string(current)
        latest_parsed == parse_version_string(latest)
    IN
    IF current_parsed.exc \/ latest_parsed.exc THEN Propagated
    ELSE IF current_parsed.val.kind = "str" \/ latest_parsed.val.kind = "str"
    THEN Verdict(current_parsed.val # latest_parsed.val,
                 Msg("raw", current, latest))
    ELSE IF VersionGreater(latest_parsed.val.release, current_parsed.val.release)
    THEN Verdict(TRUE, Msg("new_version", current, latest))
    ELSE IF VersionEqual(latest_parsed.val.release, current_parsed.val.release)
    THEN Verdict(FALSE, Msg("latest", current, None))
    ELSE Verdict(FALSE, Msg("newer_than_listed", current, latest))

\* the statements of compare_versions' try block
compare_try(current, latest) ==
    LET current_parsed == parse_version_string(current)
        latest_parsed == parse_version_string(latest)
    IN
    IF current_parsed.exc \/ latest_parsed.exc THEN Propagated
    ELSE IF current_parsed.val.kind = "str" \/ latest_parsed.val.kind = "str"
    THEN Verdict(current # latest,
                 Msg("raw", current, latest))
    ELSE IF VersionGreater(latest_parsed.val.release, current_parsed.val.release)
    THEN Verdict(TRUE, Msg("new_version", current, latest))
    ELSE IF VersionEqual(latest_parsed.val.release, current_parsed.val.release)
    THEN Verdict(FALSE, Msg("latest", current, None))
    ELSE Verdict(FALSE, Msg("newer_than_listed", current, latest))

\* the mutant: the try block without its except clause
compare_versions_NoExcept(current, latest) ==
    IF ~Truthy(latest) THEN Verdict(FALSE, Msg("no_latest", None, None))
    ELSE compare_try(current, latest)

compare_versions(current, latest) ==
    IF ~Truthy(latest) THEN Verdict(FALSE, Msg("no_latest", None, None))
    ELSE
      LET r == compare_try(current, latest) IN
      IF r.exc THEN Verdict(FALSE, Msg("error", None, None)) ELSE r

(***************************************************************************)
(* The API strategy: the JSON body of the firmware endpoint and            *)
(* extract_version_from_api_response.  A JSON value is a record with a     *)
(* tag; a dict says which of the keys the code reads it holds.             *)
(***************************************************************************)
JsonNull == [tag |-> "null", has_data |-> FALSE, data |-> <<>>]
JsonDict == [tag |-> "dict", has_data |-> FALSE, data |-> <<>>]
JsonData(products) == [tag |-> "dict", has_data |-> TRUE, data |-> products]

\* an entry of data that is no dict (a number)
ProductNumber == [tag |-> "number", has_firmwares |-> FALSE, firmwares |-> <<>>]
ProductDict == [tag |-> "dict", has_firmwares |-> FALSE, firmwares |-> <<>>]
Product(firmwares) == [tag |-> "dict", has_firmwares |-> TRUE, firmwares |-> firmwares]

Firmware(version, updated_at) ==
    [has_version |-> TRUE, version |-> version,
     has_updated_at |-> TRUE, updated_at |-> updated_at]

\* x.get('updated_at', 0)
updated_at_key(x) == IF x.has_updated_at THEN x.updated_at ELSE 0

\* the mutant: the first record of the list, whatever its timestamp
latest_firmware_First(firmwares) == firmwares[1]

\* the mutant: the last record whose key no other exceeds
latest_firmware_Last(firmwares) ==
    LET i == CHOOSE i \in 1..Len(firmwares) :
                 /\ \A j \in 1..Len(firmwares) :
                        updated_at_key(firmwares[j]) <= updated_at_key(firmwares[i])
                 /\ \A j \in (i + 1)..Len(firmwares) :
                        updated_at_key(firmwares[j]) < updated_at_key(firmwares[i])
    IN firmwares[i]

\* max(firmwares, key=...): the first record whose key no other exceeds
latest_firmware(firmwares) ==
    LET i == CHOOSE i \in 1..Len(firmwares) :
                 /\ \A j \in 1..Len(firmwares) :
                        updated_at_key(firmwares[j]) <= updated_at_key(firmwares[i])
                 /\ \A j \in 1..(i - 1) :
                        updated_at_key(firmwares[j]) < updated_at_key(firmwares[i])
    IN firmwares[i]

extract_version_from_api_response(data) ==
    IF data.tag = "null" \/ ~data.has_data THEN Ok(None)
    ELSE IF data.data = <<>> THEN Ok(None)
    ELSE LET product_data == data.data[1] IN
         IF product_data.tag # "dict" THEN Raise   \* 'firmwares' in a number
         ELSE IF ~product_data.has_firmwares THEN Ok(None)
         ELSE IF product_data.firmwares = <<>> THEN Ok(None)
         ELSE LET latest == latest_firmware(product_data.firmwares) IN
              IF latest.has_version THEN Ok(latest.version) ELSE Ok(None)

(***************************************************************************)
(* What one HTTP request of the resolver comes back with: the call raises  *)
(* (no network, a timeout), or a response arrives with a status and a      *)
(* body.  The body of the firmware endpoint is JSON (json_ok says whether  *)
(* response.json() parses it); the body of a page is text, a sequence of   *)
(* whitespace-separated tokens, each a string that an optional label       *)
(* ("version: ...") precedes.                                              *)
(***************************************************************************)
HttpRaise == [kind |-> "raise", status |-> 0, json_ok |-> FALSE, json |-> JsonNull, text |-> <<>>]
HttpStatus(status) ==
    [kind |-> "response", status |-> status, json_ok |-> FALSE, json |-> JsonNull, text |-> <<>>]
HttpNotJson == [kind |-> "response", status |-> 200, json_ok |-> FALSE, json |-> JsonNull, text |-> <<>>]
HttpJson(data) == [kind |-> "response", status |-> 200, json_ok |-> TRUE, json |-> data, text |-> <<>>]
HttpPage(text) == [kind |-> "response", status |-> 200, json_ok |-> FALSE, json |-> JsonNull, text |-> text]

\* the statements of get_reolink_firmware_api's try block
api_try(response) ==
    IF response.kind = "raise" THEN Raise
    ELSE IF response.status = 200
    THEN IF ~response.json_ok THEN Raise   \* response.json() raises
         ELSE extract_version_from_api_response(response.json)
    ELSE Ok(None)

\* the mutant: the try block without its except clause
get_reolink_firmware_api_NoExcept(response) == api_try(response)

get_reolink_firmware_api(response) ==
    LET r == api_try(response) IN IF r.exc THEN Ok(None) ELSE r

RLN8_410 == <<"RLN8-410">>
N2MB02 == <<"N2MB02">>

Ids(product_id, hardware_id) == [product_id |-> product_id, hardware_id |-> hardware_id]

\* the mutant: the product id of a known model is returned whatever the hardware
get_product_and_hardware_ids_ProductOnly(model, hardware_version) ==
    IF model = RLN8_410
    THEN Ids(<<"3", "3">>, IF hardware_version = N2MB02 THEN <<"2", "3", "1">> ELSE None)
    ELSE Ids(None, None)

get_product_and_hardware_ids(model, hardware_version) ==
    IF model = RLN8_410
    THEN LET hardware_id == IF hardware_version = N2MB02 THEN <<"2", "3", "1">> ELSE None
         IN IF Truthy(hardware_id) THEN Ids(<<"3", "3">>, hardware_id) ELSE Ids(None, None)
    ELSE Ids(None, None)

(***************************************************************************)
(* The version patterns of the fallback strategies.                        *)
(***************************************************************************)
\* the position after the digits that start at i (i when there are none)
RECURSIVE DigitRunEnd(_, _)
DigitRunEnd(s, i) ==
    IF i <= Len(s) /\ s[i] \in Digit THEN DigitRunEnd(s, i + 1) ELSE i

\* \d+(\.\d+){k-1} at position i: the position after the match, 0 for none
RECURSIVE MatchDotted(_, _, _)
MatchDotted(s, i, k) ==
    LET e == DigitRunEnd(s, i) IN
    IF e = i THEN 0
    ELSE IF k = 1 THEN e
    ELSE IF e <= Len(s) /\ s[e] = "." THEN MatchDotted(s, e + 1, k - 1)
    ELSE 0

\* \d+\.\d+\.\d+\.\d+_\d+ at position i: the position after the match, 0 for none
MatchBuild(s, i) ==
    LET e == MatchDotted(s, i, 4) IN
    IF e = 0 \/ e > Len(s) THEN 0
    ELSE IF s[e] # "_" THEN 0
    ELSE LET f == DigitRunEnd(s, e + 1) IN IF f = e + 1 THEN 0 ELSE f

\* re.findall(r'v?(\d+\.\d+\.\d+\.\d+_\d+)', s) from position i on
RECURSIVE FindallBuild(_, _)
FindallBuild(s, i) ==
    IF i > Len(s) THEN <<>>
    ELSE LET e == MatchBuild(s, i) IN
         IF e = 0 THEN FindallBuild(s, i + 1)
         ELSE <<SubSeq(s, i, e - 1)>> \o FindallBuild(s, e)

\* the same over a page's tokens
RECURSIVE FindallBuildText(_)
FindallBuildText(text) ==
    IF text = <<>> THEN <<>>
    ELSE FindallBuild(Head(text).ver, 1) \o FindallBuildText(Tail(text))

\* re.findall(label + r'[:\s]+v?(\d+(\.\d+){parts-1})'): the labelled tokens whose
\* string starts with the version; with_v keeps the v in the group ([v]? inside)
LabelledGroup(token, parts, with_v) ==
    LET s == token.ver
        start == IF s # <<>> /\ s[1] \in {"v", "V"} THEN 2 ELSE 1
        e == MatchDotted(s, start, parts)
    IN IF e = 0 THEN <<>> ELSE <<SubSeq(s, IF with_v THEN 1 ELSE start, e - 1)>>

RECURSIVE FindallLabelled(_, _, _, _)
FindallLabelled(text, label, parts, with_v) ==
    IF text = <<>> THEN <<>>
    ELSE (IF Head(text).label = label THEN LabelledGroup(Head(text), parts, with_v) ELSE <<>>)
           \o FindallLabelled(Tail(text), label, parts, with_v)

\* x.replace('_', '').replace('.', ''), as the code points of its digits
sort_key(x) ==
    LET d == str_remove(str_remove(x, "_"), ".") IN [i \in 1..Len(d) |-> DigitVal(d[i])]

\* max(versions, key=...): the keys are str, compared as Python compares str
max_version(versions) ==
    LET i == CHOOSE i \in 1..Len(versions) :
                 /\ \A j \in 1..Len(versions) :
                        ~TupleLess(sort_key(versions[i]), sort_key(versions[j]))
                 /\ \A j \in 1..(i - 1) :
                        TupleLess(sort_key(versions[j]), sort_key(versions[i]))
    IN versions[i]

LongEnough(m) == Len(m) > 5

\* one pattern of extract_version_from_html: None when it yields nothing
html_pattern(matches) ==
    LET versions == SelectSeq(matches, LongEnough) IN
    IF matches # <<>> /\ versions # <<>> THEN max_version(versions) ELSE None

extract_version_from_html(html_content) ==
    LET p1 == html_pattern(FindallBuildText(html_content))
        p2 == html_pattern(FindallLabelled(html_content, "version", 4, FALSE))
        p3 == html_pattern(FindallLabelled(html_content, "firmware", 4, FALSE))
        p4 == html_pattern(FindallLabelled(html_content, "download", 4, FALSE))
    IN IF p1 # None THEN p1
       ELSE IF p2 # None THEN p2
       ELSE IF p3 # None THEN p3
       ELSE p4

(***************************************************************************)
(* The form simulation, one request at a time.  Each step returns the      *)
(* version the strategy returns at that point, or None to go on; Stop      *)
(* says that the strategy returns None there.                              *)
(***************************************************************************)
Step(stop, v) == [exc |-> FALSE, stop |-> stop, val |-> v]
StepRaise == [exc |-> TRUE, stop |-> TRUE, val |-> None]

\* GET /download-center/, inside the outer try
form_page_try(response) ==
    IF response.kind = "raise" THEN StepRaise
    ELSE IF response.status # 200 THEN Step(TRUE, None)
    ELSE Step(FALSE, None)

form_page(response) ==
    LET r == form_page_try(response) IN IF r.exc THEN Step(TRUE, None) ELSE r

\* a request of the form simulation inside its own try ... except: pass
form_request_try(response) ==
    IF response.kind = "raise" THEN StepRaise
    ELSE IF response.status = 200
    THEN LET version == extract_version_from_html(response.text) IN
         IF Truthy(version) THEN Step(TRUE, version) ELSE Step(FALSE, None)
    ELSE Step(FALSE, None)

form_request(response) ==
    LET r == form_request_try(response) IN IF r.exc THEN Step(FALSE, None) ELSE r

(***************************************************************************)
(* The direct download pages, one URL at a time.                           *)
(***************************************************************************)
direct_url_try(response) ==
    IF response.kind = "raise" THEN StepRaise
    ELSE IF response.status = 200
    THEN LET m1 == FindallBuildText(response.text)
             m2 == FindallLabelled(response.text, "version", 3, TRUE)
             m3 == FindallLabelled(response.text, "firmware", 3, TRUE)
         IN IF m1 # <<>> THEN Step(TRUE, m1[1])
            ELSE IF m2 # <<>> THEN Step(TRUE, m2[1])
            ELSE IF m3 # <<>> THEN Step(TRUE, m3[1])
            ELSE Step(FALSE, None)
    ELSE Step(FALSE, None)

direct_url(response) ==
    LET r == direct_url_try(response) IN IF r.exc THEN Step(FALSE, None) ELSE r

(***************************************************************************)
(* The configuration store (config.py).  A configuration holds the device  *)
(* section and the settings section; a key that is absent reads as None.   *)
(* toml.dump followed by toml.load gives back these sections as they are,  *)
(* so the content of a well-formed file is the configuration it holds.     *)
(***************************************************************************)
Device(model, hardware_version, version) ==
    [model |-> model, hardware_version |-> hardware_version,
     current_firmware_version |-> version]
NoDevice == Device(None, None, None)

Settings(a, b, c) ==
    [has |-> TRUE, check_on_startup |-> a, verbose_output |-> b,
     auto_open_browser_on_manual |-> c]
NoSettings == [has |-> FALSE, check_on_startup |-> FALSE, verbose_output |-> FALSE,
               auto_open_browser_on_manual |-> FALSE]

Config(has_device, device, settings) ==
    [kind |-> "toml", has_device |-> has_device, device |-> device, settings |-> settings]

Missing == [kind |-> "missing", has_device |-> FALSE, device |-> NoDevice, settings |-> NoSettings]
Malformed == [kind |-> "malformed", has_device |-> FALSE, device |-> NoDevice, settings |-> NoSettings]
Unloaded == [kind |-> "unloaded", has_device |-> FALSE, device |-> NoDevice, settings |-> NoSettings]

DefaultVersion == <<"v", "3", ".", "5", ".", "1", ".", "3", "6", "8", "_", "2", "5", "0", "1", "0", "3", "2", "6">>

get_default_config ==
    Config(TRUE, Device(RLN8_410, N2MB02, DefaultVersion), Settings(TRUE, FALSE, TRUE))

\* self.config.get('device', {}) and the .get of its keys
get_device_config(c) == IF c.has_device THEN c.device ELSE NoDevice

\* get_setting('auto_open_browser_on_manual', True)
auto_open_browser(c) ==
    IF c.settings.has THEN c.settings.auto_open_browser_on_manual ELSE TRUE

\* the mutant: the configuration is saved with the version it had
update_firmware_version_Forgotten(c, new_version) == c

\* the mutant: the device section is replaced by one that holds the version only
update_firmware_version_NewSection(c, new_version) ==
    [c EXCEPT !.has_device = TRUE,
              !.device = [NoDevice EXCEPT !.current_firmware_version = new_version]]

\* update_firmware_version, before it saves
update_firmware_version(c, new_version) ==
    [c EXCEPT !.has_device = TRUE,
              !.device = [get_device_config(c) EXCEPT !.current_firmware_version = new_version]]

\* input(...).strip() or default
or_default(answer, default) == IF Truthy(answer) THEN answer ELSE default

interactive_setup(model_in, hardware_in, version_in) ==
    Config(TRUE,
           Device(or_default(model_in, RLN8_410), or_default(hardware_in, N2MB02),
                  or_default(version_in, DefaultVersion)),
           Settings(TRUE, FALSE, TRUE))

\* _save_config: the write succeeds; or open() fails and the file is as it
\* was; or the write fails after open() truncated the file
WriteOutcomes == {"ok", "not_opened", "partial"}
saved_file(old, c, w) ==
    IF w = "ok" THEN c ELSE IF w = "not_opened" THEN old ELSE Malformed

\* the mutant: an incomplete configuration is only warned about
is_complete_Lenient(device_config) == TRUE

\* all([model, hardware_version, current_version])
is_complete(device_config) ==
    /\ Truthy(device_config.model)
    /\ Truthy(device_config.hardware_version)
    /\ Truthy(device_config.current_firmware_version)

(***************************************************************************)
(* Decisions of search_firmware, check_for_updates and main().             *)
(***************************************************************************)
\* the mutant: every strategy is tried, whatever the earlier ones found
search_next_NoShortCircuit(strategy, version) ==
    CASE strategy = "api" -> "form_page"
      [] strategy = "form" -> "direct_1"
      [] strategy = "direct" -> "search_return"

\* where search_firmware goes once a strategy returned version
search_next(strategy, version) ==
    IF Truthy(version) THEN "search_return"
    ELSE CASE strategy = "api" -> "form_page"
           [] strategy = "form" -> "direct_1"
           [] strategy = "direct" -> "search_return"

\* the mutant: a failed lookup is reported as an update
lookup_failed_result_Update == TRUE

\* what check_for_updates returns when search_firmware found nothing
lookup_failed_result == FALSE

\* the mutant: the automatic check always ends with status 0
automatic_exit_status_Zero(update) == 0

\* the status the automatic check ends with
automatic_exit_status(update) == IF update THEN 1 ELSE 0

\* the status the manual check ends with once it compared
manual_exit_status(update) == IF update THEN 1 ELSE 0

NoResponse == [kind |-> "none", status |-> 0, json_ok |-> FALSE, json |-> JsonNull, text |-> <<>>]

MainIdle ==
    /\ file = Missing
    /\ argv = <<>>
    /\ config = Unloaded
    /\ pc = "idle"
    /\ exit_code = 0
    /\ traceback = FALSE
    /\ current_version = None
    /\ latest_version = None
    /\ has_update = FALSE
    /\ compared = FALSE
    /\ attempted = <<>>
    /\ yielded = <<>>
    /\ last_response = NoResponse
    /\ printed = {}
    /\ write_log = <<>>

(***************************************************************************)
(* A call of compare_versions on drawn arguments.                          *)
(***************************************************************************)
Char == {"v", "0", "1", ".", "_"}
Strs(n) == UNION {[1..k -> Char] : k \in 0..n}
CompareInputs == Strs(MaxLen) \cup {None, NotAString}

InitCompare ==
    /\ MainIdle
    /\ h_pc = "call"
    /\ h_in \in [current : CompareInputs, latest : CompareInputs]
    /\ h_out = None

CallCompare ==
    /\ h_pc = "call"
    /\ h_out' = compare_versions(h_in.current, h_in.latest)
    /\ h_pc' = "done"
    /\ UNCHANGED <<h_in, file, argv, config, pc, exit_code, traceback,
                   current_version, latest_version, has_update, compared,
                   attempted, yielded, last_response, printed, write_log>>

NextCompare == CallCompare

SpecCompare == InitCompare /\ [][NextCompare]_vars

(***************************************************************************)
(* Two calls of parse_version_string, on a drawn string and on the same    *)
(* string behind a v, and the == of the two results.                       *)
(***************************************************************************)
\* Python's == of two results of parse_version_string
parsed_equal(a, b) ==
    IF a.kind = "Version" /\ b.kind = "Version" THEN VersionEqual(a.release, b.release)
    ELSE a.kind = "str" /\ b.kind = "str" /\ a.str = b.str

InitParse ==
    /\ MainIdle
    /\ h_pc = "call"
    /\ h_in \in Strs(MaxLen)
    /\ h_out = None

CallParse ==
    /\ h_pc = "call"
    /\ LET parsed == parse_version_string(<<"v">> \o h_in)
           parsed_no_v == parse_version_string(h_in)
       IN h_out' = [parsed |-> parsed, parsed_no_v |-> parsed_no_v,
                    equal |-> ~parsed.exc /\ ~parsed_no_v.exc
                                /\ parsed_equal(parsed.val, parsed_no_v.val)]
    /\ h_pc' = "done"
    /\ UNCHANGED <<h_in, file, argv, config, pc, exit_code, traceback,
                   current_version, latest_version, has_update, compared,
                   attempted, yielded, last_response, printed, write_log>>

NextParse == CallParse

SpecParse == InitParse /\ [][NextParse]_vars

(***************************************************************************)
(* A call of extract_version_from_api_response on a drawn JSON body.       *)
(***************************************************************************)
ApiVersions ==
    { <<"v", "1", ".", "0", "_", "1">>,
      <<"v", "1", ".", "0", "_", "2">>,
      <<"v", "1", ".", "1", "_", "0">> }

FirmwareRecords ==
    [has_version : {TRUE}, version : ApiVersions,
     has_updated_at : {TRUE}, updated_at : 0..MaxTime]
    \cup [has_version : {FALSE}, version : {None},
          has_updated_at : {TRUE}, updated_at : 0..MaxTime]
    \cup [has_version : {TRUE}, version : ApiVersions,
          has_updated_at : {FALSE}, updated_at : {0}]

FirmwareLists(n) == UNION {[1..k -> FirmwareRecords] : k \in 0..n}

\* another product's entry, after the first
OtherProduct == Product(<<Firmware(<<"v", "9", ".", "9", "_", "9">>, MaxTime + 1)>>)

Products(n) == {ProductNumber, ProductDict} \cup {Product(f) : f \in FirmwareLists(n)}

ApiData(n) ==
    {JsonNull, JsonDict, JsonData(<<>>)}
    \cup {JsonData(<<p>>) : p \in Products(n)}
    \cup {JsonData(<<p, OtherProduct>>) : p \in Products(n)}

InitExtract ==
    /\ MainIdle
    /\ h_pc = "call"
    /\ h_in \in ApiData(MaxRecords)
    /\ h_out = None

CallExtract ==
    /\ h_pc = "call"
    /\ h_out' = extract_version_from_api_response(h_in)
    /\ h_pc' = "done"
    /\ UNCHANGED <<h_in, file, argv, config, pc, exit_code, traceback,
                   current_version, latest_version, has_update, compared,
                   attempted, yielded, last_response, printed, write_log>>

NextExtract == CallExtract

SpecExtract == InitExtract /\ [][NextExtract]_vars


(***************************************************************************)
(* One run of the process: the inputs it may start from.                   *)
(***************************************************************************)
FlagManual == <<"--manual">>
FlagConfig == <<"--config">>
FlagUpdateVersion == <<"--update-version">>
FlagOther == <<"--help">>

V_1_0_1 == <<"v", "1", ".", "0", "_", "1">>
V_1_0_2 == <<"v", "1", ".", "0", "_", "2">>
V_1_1_0 == <<"v", "1", ".", "1", "_", "0">>

Models == {None, RLN8_410, <<"RLN16-410">>}
HardwareVersions == {None, N2MB02, <<"N2MB03">>}
\* the stored version may be absent, no string (a TOML number) or malformed
StoredVersions == {None, NotAString, V_1_0_1, V_1_0_2, <<"b", "e", "t", "a">>}

SettingsSections == {NoSettings, Settings(TRUE, FALSE, TRUE), Settings(FALSE, TRUE, FALSE)}

Files ==
    {Missing, Malformed}
    \cup {Config(TRUE, Device(m, h, v), st) :
              m \in Models, h \in HardwareVersions, v \in StoredVersions,
              st \in SettingsSections}
    \cup {Config(FALSE, NoDevice, st) : st \in SettingsSections}

Argvs ==
    { <<>>, <<FlagManual>>, <<FlagConfig>>, <<FlagOther>>, <<FlagUpdateVersion>>,
      <<FlagUpdateVersion, V_1_1_0>>, <<FlagUpdateVersion, V_1_0_1, FlagOther>> }

\* what the user types at the prompts of the interactive setup
SetupModels == {EmptyStr, <<"RLN16-410">>}
SetupHardware == {EmptyStr, <<"N2MB03">>}
SetupVersions == {EmptyStr, V_1_0_2}

\* what the user types at the prompts of the manual check
PromptAnswers == { <<"y">>, <<"N">>, EmptyStr, <<"?">>, <<"V", "1", ".", "0", "_", "2">>, <<"1", ".", "1", "_", "0">>, <<"v">> }
VersionAnswers == {EmptyStr, V_1_0_2, V_1_1_0}
ConfirmAnswers == { <<"y">>, <<"n">> }

\* the bodies of the pages of the fallback strategies
HtmlTokens ==
    { [label |-> "", ver |-> <<"v", "1", ".", "0", ".", "0", ".", "0", "_", "2">>],
      [label |-> "", ver |-> <<"9", ".", "0", ".", "0", ".", "0", "_", "1">>],
      [label |-> "", ver |-> <<"1", "0", ".", "0", ".", "0", ".", "0", "_", "1">>],
      [label |-> "version", ver |-> <<"v", "1", ".", "2", ".", "3", ".", "4">>],
      [label |-> "firmware", ver |-> <<"1", ".", "2", ".", "3">>],
      [label |-> "", ver |-> <<"n", "/", "a">>] }

Texts == UNION {[1..k -> HtmlTokens] : k \in 0..MaxTokens}

PageResponses == {HttpRaise, HttpStatus(404)} \cup {HttpPage(t) : t \in Texts}

ApiResponses ==
    {HttpRaise, HttpStatus(403), HttpNotJson} \cup {HttpJson(d) : d \in ApiData(1)}

(***************************************************************************)
(* One page handed to a fallback strategy: the POST of the form            *)
(* simulation, or a URL of the direct download pages.                      *)
(***************************************************************************)
FallbackStrategies == {"form", "direct"}

ScannedTexts == UNION {[1..k -> HtmlTokens] : k \in 0..MaxMatches}

InitScan ==
    /\ MainIdle
    /\ h_pc = "call"
    /\ h_in \in [strategy : FallbackStrategies, text : ScannedTexts]
    /\ h_out = None

CallScan ==
    /\ h_pc = "call"
    /\ h_out' = IF h_in.strategy = "form"
                THEN form_request(HttpPage(h_in.text)).val
                ELSE direct_url(HttpPage(h_in.text)).val
    /\ h_pc' = "done"
    /\ UNCHANGED <<h_in, file, argv, config, pc, exit_code, traceback,
                   current_version, latest_version, has_update, compared,
                   attempted, yielded, last_response, printed, write_log>>

NextScan == CallScan

SpecScan == InitScan /\ [][NextScan]_vars

Init ==
    /\ file \in Files
    /\ argv \in Argvs
    /\ config = Unloaded
    /\ pc = "start"
    /\ exit_code = 0
    /\ traceback = FALSE
    /\ current_version = None
    /\ latest_version = None
    /\ has_update = FALSE
    /\ compared = FALSE
    /\ attempted = <<>>
    /\ yielded = <<>>
    /\ last_response = NoResponse
    /\ printed = {}
    /\ write_log = <<>>
    /\ h_pc = "idle"
    /\ h_in = None
    /\ h_out = None

hvars == <<h_pc, h_in, h_out>>

\* sys.exit(code)
Exit(code) == pc' = "exit" /\ exit_code' = code /\ traceback' = FALSE

\* an exception nobody catches: the interpreter prints it and ends with status 1
Crash == pc' = "exit" /\ exit_code' = 1 /\ traceback' = TRUE

\* _save_config(c)
Save(c) ==
    \E w \in WriteOutcomes :
        /\ file' = saved_file(file, c, w)
        /\ write_log' = Append(write_log, w)

(***************************************************************************)
(* A ReolinkConfig object and a sequence of update_firmware_version calls  *)
(* on it.  h_in is the configuration as it was loaded, h_out the version   *)
(* of the last call.                                                       *)
(***************************************************************************)
UpdateVersions == {V_1_0_2, V_1_1_0}

\* ReolinkConfig(): the file is loaded, replaced by the defaults, or set up
InitUpdate ==
    /\ \E f \in Files, m \in SetupModels, h \in SetupHardware, v \in SetupVersions :
           /\ config = IF f.kind = "toml" THEN f
                        ELSE IF f.kind = "malformed" THEN get_default_config
                        ELSE interactive_setup(m, h, v)
           /\ file = IF f.kind = "missing" THEN config ELSE f
    /\ h_pc = "ready"
    /\ h_in = config
    /\ h_out = None
    /\ argv = <<>>
    /\ pc = "idle"
    /\ exit_code = 0
    /\ traceback = FALSE
    /\ current_version = None
    /\ latest_version = None
    /\ has_update = FALSE
    /\ compared = FALSE
    /\ attempted = <<>>
    /\ yielded = <<>>
    /\ last_response = NoResponse
    /\ printed = {}
    /\ write_log = <<>>

CallUpdate ==
    /\ h_pc = "ready"
    /\ Len(write_log) < MaxCalls
    /\ \E new_version \in UpdateVersions :
           /\ config' = update_firmware_version(config, new_version)
           /\ Save(config')
           /\ h_out' = new_version
    /\ UNCHANGED <<h_pc, h_in, argv, pc, exit_code, traceback, current_version,
                   latest_version, has_update, compared, attempted, yielded,
                   last_response, printed>>

NextUpdate == CallUpdate

SpecUpdate == InitUpdate /\ [][NextUpdate]_vars

(***************************************************************************)
(* ReolinkConfig(): _load_config.                                          *)
(***************************************************************************)
LoadFile ==
    /\ pc = "start"
    /\ file.kind = "toml"
    /\ config' = file
    /\ pc' = "loaded"
    /\ UNCHANGED <<file, argv, exit_code, traceback, current_version, latest_version,
                   has_update, compared, attempted, yielded, last_response, printed,
                   write_log, hvars>>

LoadMalformed ==
    /\ pc = "start"
    /\ file.kind = "malformed"
    /\ config' = get_default_config
    /\ printed' = printed \cup {"load_warning"}
    /\ pc' = "loaded"
    /\ UNCHANGED <<file, argv, exit_code, traceback, current_version, latest_version,
                   has_update, compared, attempted, yielded, last_response,
                   write_log, hvars>>

InteractiveSetup ==
    /\ pc = "start"
    /\ file.kind = "missing"
    /\ \E m \in SetupModels, h \in SetupHardware, v \in SetupVersions :
           /\ config' = interactive_setup(m, h, v)
           /\ Save(config')
    /\ printed' = printed \cup {"setup"}
    /\ pc' = "loaded"
    /\ UNCHANGED <<argv, exit_code, traceback, current_version, latest_version,
                   has_update, compared, attempted, yielded, last_response, hvars>>

(***************************************************************************)
(* main(): the configuration check and the dispatch on sys.argv.           *)
(***************************************************************************)
Main_ReadConfig ==
    /\ pc = "loaded"
    /\ LET device_config == get_device_config(config) IN
       /\ current_version' = device_config.current_firmware_version
       /\ IF is_complete(device_config)
          THEN /\ pc' = "dispatch"
               /\ UNCHANGED <<exit_code, traceback, printed>>
          ELSE /\ printed' = printed \cup {"incomplete"}
               /\ Exit(1)
    /\ UNCHANGED <<file, argv, config, latest_version, has_update, compared,
                   attempted, yielded, last_response, write_log, hvars>>

\* the mutant: show_config also saves the configuration it printed
Main_ShowConfig_Saving ==
    /\ pc = "dispatch"
    /\ argv # <<>> /\ argv[1] = FlagConfig
    /\ printed' = printed \cup {"config"}
    /\ Save(config)
    /\ Exit(0)
    /\ UNCHANGED <<argv, config, current_version, latest_version, has_update,
                   compared, attempted, yielded, last_response, hvars>>

Main_ShowConfig ==
    /\ pc = "dispatch"
    /\ argv # <<>> /\ argv[1] = FlagConfig
    /\ printed' = printed \cup {"config"}
    /\ Exit(0)
    /\ UNCHANGED <<file, argv, config, current_version, latest_version, has_update,
                   compared, attempted, yielded, last_response, write_log, hvars>>

Main_UpdateVersion ==
    /\ pc = "dispatch"
    /\ argv # <<>> /\ argv[1] = FlagUpdateVersion
    /\ IF Len(argv) > 1
       THEN /\ config' = update_firmware_version(config, argv[2])
            /\ Save(config')
            /\ printed' = printed \cup {"updated"}
            /\ Exit(0)
       ELSE /\ printed' = printed \cup {"usage_update_version"}
            /\ Exit(1)
            /\ UNCHANGED <<config, file, write_log>>
    /\ UNCHANGED <<argv, current_version, latest_version, has_update, compared,
                   attempted, yielded, last_response, hvars>>

Main_Usage ==
    /\ pc = "dispatch"
    /\ argv # <<>> /\ argv[1] \notin {FlagManual, FlagConfig, FlagUpdateVersion}
    /\ printed' = printed \cup {"usage"}
    /\ Exit(1)
    /\ UNCHANGED <<file, argv, config, current_version, latest_version, has_update,
                   compared, attempted, yielded, last_response, write_log, hvars>>

(***************************************************************************)
(* The manual check: manual_check and the --manual branch of main().       *)
(***************************************************************************)
Main_Manual ==
    /\ pc = "dispatch"
    /\ argv # <<>> /\ argv[1] = FlagManual
    /\ printed' = printed \cup (IF auto_open_browser(config) THEN {"browser_opened"} ELSE {})
    /\ pc' = "manual_prompt"
    /\ UNCHANGED <<file, argv, config, exit_code, traceback, current_version,
                   latest_version, has_update, compared, attempted, yielded,
                   last_response, write_log, hvars>>

\* response.startswith('v') or any(c.isdigit() for c in response)
looks_like_version(r) ==
    \/ r # <<>> /\ r[1] = "v"
    \/ \E i \in 1..Len(r) : r[i] \in Digit

ManualPrompt ==
    /\ pc = "manual_prompt"
    /\ \E answer \in PromptAnswers :
           LET r == str_lower(answer) IN
           IF r = <<"y">>
           THEN pc' = "manual_version" /\ UNCHANGED <<latest_version, printed>>
           ELSE IF r = <<"n">>
           THEN pc' = "manual_return" /\ latest_version' = None /\ UNCHANGED printed
           ELSE IF looks_like_version(r)
           THEN pc' = "manual_return" /\ latest_version' = r /\ UNCHANGED printed
           ELSE /\ pc' = "manual_prompt"
                /\ printed' = printed \cup {"please_enter"}
                /\ UNCHANGED latest_version
    /\ UNCHANGED <<file, argv, config, exit_code, traceback, current_version,
                   has_update, compared, attempted, yielded, last_response,
                   write_log, hvars>>

ManualVersion ==
    /\ pc = "manual_version"
    /\ \E version \in VersionAnswers :
           IF Truthy(version)
           THEN pc' = "manual_return" /\ latest_version' = version
           ELSE pc' = "manual_prompt" /\ UNCHANGED latest_version
    /\ UNCHANGED <<file, argv, config, exit_code, traceback, current_version,
                   has_update, compared, attempted, yielded, last_response, printed,
                   write_log, hvars>>

Main_ManualCompare ==
    /\ pc = "manual_return"
    /\ IF Truthy(latest_version)
       THEN LET v == compare_versions(current_version, latest_version) IN
            IF v.exc THEN Crash /\ UNCHANGED <<compared, has_update, printed>>
            ELSE /\ compared' = TRUE
                 /\ has_update' = v.has_update
                 /\ printed' = printed \cup {v.message.kind}
                 /\ IF v.has_update
                    THEN pc' = "manual_confirm" /\ UNCHANGED <<exit_code, traceback>>
                    ELSE Exit(manual_exit_status(FALSE))
       ELSE /\ printed' = printed \cup {"no_updates_found"}
            /\ Exit(0)
            /\ UNCHANGED <<compared, has_update>>
    /\ UNCHANGED <<file, argv, config, current_version, latest_version, attempted,
                   yielded, last_response, write_log, hvars>>

Main_ManualConfirm ==
    /\ pc = "manual_confirm"
    /\ \E answer \in ConfirmAnswers :
           IF str_lower(answer) = <<"y">>
           THEN /\ config' = update_firmware_version(config, latest_version)
                /\ Save(config')
                /\ printed' = printed \cup {"updated", "update_available"}
           ELSE /\ UNCHANGED <<config, file, write_log>>
                /\ printed' = printed \cup {"update_available"}
    /\ Exit(manual_exit_status(TRUE))
    /\ UNCHANGED <<argv, current_version, latest_version, has_update, compared,
                   attempted, yielded, last_response, hvars>>

(***************************************************************************)
(* The automatic check: search_firmware, one HTTP request at a time, then  *)
(* check_for_updates and the end of main().                                *)
(***************************************************************************)
Main_Automatic ==
    /\ pc = "dispatch"
    /\ argv = <<>>
    /\ pc' = "search_api"
    /\ UNCHANGED <<file, argv, config, exit_code, traceback, current_version,
                   latest_version, has_update, compared, attempted, yielded,
                   last_response, printed, write_log, hvars>>

\* a strategy returned version: search_firmware returns it or goes on
Returned(strategy, version) ==
    /\ yielded' = Append(yielded, version)
    /\ pc' = search_next(strategy, version)
    /\ latest_version' = IF pc' = "search_return" THEN version ELSE latest_version
    /\ UNCHANGED <<exit_code, traceback>>

Raised == Crash /\ UNCHANGED <<yielded, latest_version>>

MappedIds ==
    LET d == get_device_config(config) IN
    get_product_and_hardware_ids(d.model, d.hardware_version)

SearchApi_Call ==
    /\ pc = "search_api"
    /\ Truthy(MappedIds.product_id) /\ Truthy(MappedIds.hardware_id)
    /\ \E resp \in ApiResponses :
           LET r == get_reolink_firmware_api(resp) IN
           /\ last_response' = resp
           /\ IF r.exc THEN Raised ELSE Returned("api", r.val)
    /\ attempted' = Append(attempted, "api")
    /\ UNCHANGED <<file, argv, config, current_version, has_update, compared,
                   printed, write_log, hvars>>

SearchApi_Skip ==
    /\ pc = "search_api"
    /\ ~(Truthy(MappedIds.product_id) /\ Truthy(MappedIds.hardware_id))
    /\ printed' = printed \cup {"no_mapping"}
    /\ pc' = "form_page"
    /\ UNCHANGED <<file, argv, config, exit_code, traceback, current_version,
                   latest_version, has_update, compared, attempted, yielded,
                   last_response, write_log, hvars>>

FormPage ==
    /\ pc = "form_page"
    /\ \E resp \in PageResponses :
           LET r == form_page(resp) IN
           /\ last_response' = resp
           /\ IF r.exc THEN Raised
              ELSE IF r.stop THEN Returned("form", r.val)
              ELSE pc' = "form_post" /\ UNCHANGED <<yielded, latest_version, exit_code, traceback>>
    /\ attempted' = Append(attempted, "form")
    /\ UNCHANGED <<file, argv, config, current_version, has_update, compared,
                   printed, write_log, hvars>>

FormPost ==
    /\ pc = "form_post"
    /\ \E resp \in PageResponses :
           LET r == form_request(resp) IN
           /\ last_response' = resp
           /\ IF r.exc THEN Raised
              ELSE IF r.stop THEN Returned("form", r.val)
              ELSE pc' = "form_sitesearch"
                   /\ UNCHANGED <<yielded, latest_version, exit_code, traceback>>
    /\ UNCHANGED <<file, argv, config, current_version, has_update, compared,
                   attempted, printed, write_log, hvars>>

FormSiteSearch ==
    /\ pc = "form_sitesearch"
    /\ \E resp \in PageResponses :
           LET r == form_request(resp) IN
           /\ last_response' = resp
           /\ IF r.exc THEN Raised
              ELSE IF r.stop THEN Returned("form", r.val)
              ELSE Returned("form", None)
    /\ UNCHANGED <<file, argv, config, current_version, has_update, compared,
                   attempted, printed, write_log, hvars>>

DirectPc(i) == CASE i = 1 -> "direct_1" [] i = 2 -> "direct_2" [] i = 3 -> "direct_3"

\* the i-th of the three URLs of try_direct_download_page
DirectUrl(i) ==
    /\ pc = DirectPc(i)
    /\ \E resp \in PageResponses :
           LET r == direct_url(resp) IN
           /\ last_response' = resp
           /\ IF r.exc THEN Raised
              ELSE IF r.stop THEN Returned("direct", r.val)
              ELSE IF i < 3
              THEN pc' = DirectPc(i + 1)
                   /\ UNCHANGED <<yielded, latest_version, exit_code, traceback>>
              ELSE Returned("direct", None)
    /\ attempted' = IF i = 1 THEN Append(attempted, "direct") ELSE attempted
    /\ UNCHANGED <<file, argv, config, current_version, has_update, compared,
                   printed, write_log, hvars>>

CheckForUpdates ==
    /\ pc = "search_return"
    /\ IF Truthy(latest_version)
       THEN LET v == compare_versions(current_version, latest_version) IN
            IF v.exc THEN Crash /\ UNCHANGED <<compared, has_update, printed>>
            ELSE /\ compared' = TRUE
                 /\ has_update' = v.has_update
                 /\ printed' = printed \cup {v.message.kind}
                 /\ pc' = "automatic_exit"
                 /\ UNCHANGED <<exit_code, traceback>>
       ELSE /\ has_update' = lookup_failed_result
            /\ printed' = printed \cup {"lookup_failed"}
            /\ pc' = "automatic_exit"
            /\ UNCHANGED <<compared, exit_code, traceback>>
    /\ UNCHANGED <<file, argv, config, current_version, latest_version, attempted,
                   yielded, last_response, write_log, hvars>>

Main_AutomaticExit ==
    /\ pc = "automatic_exit"
    /\ printed' = printed \cup {IF has_update THEN "update_available" ELSE "no_updates_needed"}
    /\ Exit(automatic_exit_status(has_update))
    /\ UNCHANGED <<file, argv, config, current_version, latest_version, has_update,
                   compared, attempted, yielded, last_response, write_log, hvars>>

Next ==
    \/ LoadFile
    \/ LoadMalformed
    \/ InteractiveSetup
    \/ Main_ReadConfig
    \/ Main_ShowConfig
    \/ Main_UpdateVersion
    \/ Main_Usage
    \/ Main_Manual
    \/ ManualPrompt
    \/ ManualVersion
    \/ Main_ManualCompare
    \/ Main_ManualConfirm
    \/ Main_Automatic
    \/ SearchApi_Call
    \/ SearchApi_Skip
    \/ FormPage
    \/ FormPost
    \/ FormSiteSearch
    \/ \E i \in 1..3 : DirectUrl(i)
    \/ CheckForUpdates
    \/ Main_AutomaticExit

Spec == Init /\ [][Next]_vars

(***************************************************************************)
(* Claims about a run of the process, checked under Spec.                  *)
(***************************************************************************)
\* the configuration main() read holds the three device values
LoadedComplete ==
    /\ Truthy(get_device_config(config).model)
    /\ Truthy(get_device_config(config).hardware_version)
    /\ Truthy(current_version)

\* main() has read the configuration
ConfigRead == pc \notin {"idle", "start", "loaded"}

\* the run is an automatic or a manual check
AutomaticRun == argv = <<>>
ManualRun == argv # <<>> /\ argv[1] = FlagManual

\* search_firmware has returned
SearchReturned ==
    \/ pc \in {"search_return", "automatic_exit"}
    \/ pc = "exit" /\ AutomaticRun /\ LoadedComplete /\ ~traceback

NothingYielded == \A i \in 1..Len(yielded) : ~Truthy(yielded[i])

Rank(strategy) ==
    CASE strategy = "api" -> 1 [] strategy = "form" -> 2 [] strategy = "direct" -> 3

\* C1: search_firmware tries the API lookup, then the form simulation, then
\* the direct download page; a strategy is attempted only when every earlier
\* one returned no version, and the version search_firmware returns is the one
\* of the first strategy that returned any.
C1_StrategiesInOrderFirstSuccessWins ==
    /\ Len(yielded) <= Len(attempted) /\ Len(attempted) <= Len(yielded) + 1
    /\ \A i \in 1..Len(attempted) : \A j \in 1..(i - 1) :
           /\ Rank(attempted[j]) < Rank(attempted[i])
           /\ ~Truthy(yielded[j])
    /\ ("direct" \in Range(attempted)) => ("form" \in Range(attempted))
    /\ SearchReturned =>
           /\ Len(yielded) = Len(attempted)
           /\ IF NothingYielded
              THEN /\ latest_version = None
                   /\ attempted \in {<<"api", "form", "direct">>, <<"form", "direct">>}
              ELSE /\ Truthy(yielded[Len(yielded)])
                   /\ latest_version = yielded[Len(yielded)]

\* C1's case: the API lookup found nothing, the form simulation found a
\* version, and search_firmware returned it without trying the direct pages
C1_Witness ==
    /\ pc = "search_return"
    /\ attempted = <<"api", "form">>
    /\ yielded[1] = None /\ Truthy(yielded[2])
    /\ latest_version = yielded[2]

\* C3: with a complete configuration the automatic and the manual check end
\* with status 1 exactly when the comparator reported an update, and with
\* status 0 otherwise, also when no version was found or given.
C3_ExitStatusFollowsComparator ==
    (pc = "exit" /\ (AutomaticRun \/ ManualRun) /\ LoadedComplete) =>
        /\ ~traceback
        /\ exit_code \in {0, 1}
        /\ compared =>
               has_update = compare_versions(current_version, latest_version).has_update
        /\ (exit_code = 1) <=> (compared /\ has_update)
        /\ ~Truthy(latest_version) => (exit_code = 0 /\ ~compared)

\* C3's case: an automatic check whose comparator found an update
C3_Witness ==
    /\ pc = "exit" /\ AutomaticRun /\ LoadedComplete
    /\ compared /\ has_update
    /\ "new_version" \in printed
    /\ exit_code = 1

\* how a check ended
LookupFailed == ~Truthy(latest_version)
UpdateFound == compared /\ has_update
NoUpdate == compared /\ ~has_update

CheckEnded == pc = "exit" /\ (AutomaticRun \/ ManualRun) /\ LoadedComplete

\* C4 as stated: a check that ends in "lookup failed" ends with a status that
\* neither "update found" nor "no update" ends with.
C4_ExitStatusSeparatesLookupFailure ==
    (CheckEnded /\ LookupFailed) =>
        /\ exit_code # automatic_exit_status(TRUE)
        /\ exit_code # automatic_exit_status(FALSE)

\* C4 as amended: "update found" ends with status 1; "lookup failed" ends
\* with status 0, the status of "no update", so the status tells "lookup
\* failed" from "update found" only.
C4_LookupFailureExitsLikeNoUpdate ==
    CheckEnded =>
        /\ LookupFailed \/ UpdateFound \/ NoUpdate
        /\ LookupFailed => exit_code = 0
        /\ NoUpdate => exit_code = 0
        /\ UpdateFound => exit_code = 1

\* C4's case: an automatic check whose three strategies found nothing
C4_Witness ==
    /\ CheckEnded /\ AutomaticRun
    /\ LookupFailed
    /\ attempted = <<"api", "form", "direct">>
    /\ "lookup_failed" \in printed
    /\ exit_code = 0

\* a body of the firmware endpoint that holds no firmware list
NoFirmwares(data) ==
    \/ data.tag = "null"
    \/ ~data.has_data
    \/ data.data = <<>>
    \/ data.data[1].tag # "dict"
    \/ ~data.data[1].has_firmwares
    \/ data.data[1].firmwares = <<>>

\* a page in which no version can match: it holds no digit
NoVersionIn(text) ==
    \A i \in 1..Len(text) : \A k \in 1..Len(text[i].ver) : text[i].ver[k] \notin Digit

\* the request failed, or what came back holds no version
FailedFor(strategy, resp) ==
    \/ resp.kind = "raise"
    \/ resp.status # 200
    \/ strategy = "api" /\ (~resp.json_ok \/ NoFirmwares(resp.json))
    \/ strategy # "api" /\ NoVersionIn(resp.text)

\* a strategy has just returned: last_response is the last one it received
StrategyReturned ==
    /\ pc \in {"form_page", "direct_1", "search_return"}
    /\ Len(attempted) > 0
    /\ Len(yielded) = Len(attempted)

\* C6: the resolver never raises: a request that fails (an exception, a
\* status other than 200, an empty or malformed body, a page without a
\* version) gives "no result", and search_firmware returns None when no
\* strategy has a result.
C6_ResolverNeverRaises ==
    /\ AutomaticRun => ~traceback
    /\ (StrategyReturned /\ FailedFor(attempted[Len(attempted)], last_response)) =>
           yielded[Len(yielded)] = None
    /\ (SearchReturned /\ NothingYielded) =>
           /\ latest_version = None
           /\ attempted \in {<<"api", "form", "direct">>, <<"form", "direct">>}

\* C6's case: all three strategies were tried, the last request raised, and
\* search_firmware returned None
C6_Witness ==
    /\ pc = "search_return"
    /\ attempted = <<"api", "form", "direct">>
    /\ last_response.kind = "raise"
    /\ NothingYielded
    /\ latest_version = None
    /\ ~traceback

\* the mapping table holds the pair
InTable(model, hardware_version) == model = RLN8_410 /\ hardware_version = N2MB02

\* C8: a (model, hardware version) pair that the mapping table does not hold
\* maps to (None, None), and search_firmware then sends no request to the
\* firmware API and goes straight to the fallback strategies; a pair of the
\* table maps to two ids, neither None.
C8_UnknownPairSkipsApi ==
    ConfigRead =>
        LET d == get_device_config(config)
            ids == get_product_and_hardware_ids(d.model, d.hardware_version)
        IN IF InTable(d.model, d.hardware_version)
           THEN ids.product_id # None /\ ids.hardware_id # None
           ELSE /\ ids = Ids(None, None)
                /\ "api" \notin Range(attempted)
                /\ attempted # <<>> => attempted[1] = "form"
                /\ pc \in {"form_page", "form_post", "form_sitesearch", "direct_1",
                           "direct_2", "direct_3", "search_return", "automatic_exit"}
                       => "no_mapping" \in printed

\* C8's case: a known model with an unknown hardware revision, for which
\* search_firmware returned after the two fallback strategies only
C8_Witness ==
    /\ pc = "search_return"
    /\ get_device_config(config).model = RLN8_410
    /\ get_device_config(config).hardware_version # N2MB02
    /\ attempted = <<"form", "direct">>

\* the config file cannot be parsed (and the run has not written it)
MalformedFile == file = Malformed /\ write_log = <<>>

\* C9 as stated: with a malformed or an incomplete configuration the process
\* reports it and ends with a non-zero status; it never goes on with default
\* device values.
C9_ConfigErrorIsFatal ==
    (pc # "idle" /\ (MalformedFile \/ (ConfigRead /\ ~LoadedComplete))) =>
        /\ pc \in {"start", "loaded", "exit"}
        /\ pc = "exit" => exit_code # 0

\* C9 as amended: an incomplete configuration is reported and ends the
\* process with status 1 before anything is looked up, compared or written;
\* a config file that cannot be parsed is warned about and replaced by the
\* default configuration, with which the run goes on.
C9_IncompleteIsFatalMalformedIsDefaulted ==
    /\ (ConfigRead /\ ~LoadedComplete) =>
           /\ pc = "exit" /\ exit_code = 1 /\ ~traceback
           /\ "incomplete" \in printed
           /\ attempted = <<>> /\ ~compared /\ write_log = <<>>
           /\ config = file
    /\ (MalformedFile /\ pc \notin {"idle", "start"}) =>
           /\ "load_warning" \in printed
           /\ config = get_default_config
    /\ (MalformedFile /\ ConfigRead) =>
           /\ LoadedComplete
           /\ "incomplete" \notin printed
           /\ current_version = DefaultVersion

\* C9's case: the config file is malformed and an automatic check ran on the
\* default device values and ended with status 0
C9_Witness ==
    /\ pc = "exit" /\ AutomaticRun
    /\ MalformedFile
    /\ current_version = DefaultVersion
    /\ attempted # <<>>
    /\ exit_code = 0

LastWrite == write_log[Len(write_log)]

\* what the command line asks of main(), other than a check
DispatchHolds ==
    IF argv[1] = FlagConfig
    THEN exit_code = 0 /\ "config" \in printed
    ELSE IF argv[1] = FlagUpdateVersion /\ Len(argv) > 1
    THEN /\ exit_code = 0
         /\ get_device_config(config).current_firmware_version = argv[2]
         /\ Len(write_log) > 0
         /\ LastWrite = "ok" => file = config
    ELSE IF argv[1] = FlagUpdateVersion
    THEN exit_code = 1
    ELSE exit_code = 1 /\ "usage" \in printed

\* C10 as stated: whatever the stored configuration, --config prints it and
\* ends with 0, --update-version <version> overwrites the stored version and
\* ends with 0, --update-version alone ends with 1, any other first argument
\* prints the usage and ends with 1.
C10_DispatchFromAnyConfig ==
    (pc = "exit" /\ argv # <<>> /\ ~ManualRun) => DispatchHolds

\* C10 as amended: the dispatch holds when the configuration read is complete
\* (the file is overwritten when the write succeeds); with an incomplete
\* configuration each of these commands ends with status 1 before the
\* arguments are looked at, and neither prints nor changes the configuration.
C10_DispatchFromCompleteConfig ==
    (pc = "exit" /\ argv # <<>> /\ ~ManualRun) =>
        IF LoadedComplete THEN DispatchHolds /\ ~traceback
        ELSE /\ exit_code = 1
             /\ "incomplete" \in printed
             /\ printed \cap {"config", "usage", "updated"} = {}
             /\ config = file /\ write_log = <<>>

\* C10's case: --update-version <version> on a complete configuration with
\* another version; the file now holds the new version
C10_Witness ==
    /\ pc = "exit"
    /\ argv = <<FlagUpdateVersion, V_1_1_0>>
    /\ current_version = V_1_0_1
    /\ file.kind = "toml"
    /\ file.device.current_firmware_version = V_1_1_0
    /\ exit_code = 0

(***************************************************************************)
(* Claims about what a run changes, checked under Spec.                    *)
(***************************************************************************)
\* the step changes the configuration that was loaded, or writes the file
StoreChanged ==
    \/ file' # file
    \/ write_log' # write_log
    \/ config # Unloaded /\ config' # config

\* the step is --update-version <version>, or the confirmed update of the
\* manual check after the comparator found one
ExplicitUpdate ==
    \/ /\ pc = "dispatch"
       /\ Len(argv) > 1 /\ argv[1] = FlagUpdateVersion
       /\ get_device_config(config').current_firmware_version = argv[2]
    \/ /\ pc = "manual_confirm"
       /\ ManualRun /\ compared /\ has_update
       /\ "updated" \in printed'
       /\ get_device_config(config').current_firmware_version = latest_version

\* the step is the setup that runs when there is no config file
FirstRunSetup == pc = "start" /\ file = Missing /\ config = Unloaded

\* C11 as stated: no step of any run changes the loaded configuration or
\* writes the config file, except an explicit version update.
C11_OnlyExplicitUpdateWrites == [][StoreChanged => ExplicitUpdate]_vars

\* C11 as amended: no step of any run changes the loaded configuration or
\* writes the config file, except an explicit version update and the setup
\* of the first run, which writes the file that was missing.
C11_OnlyUpdateOrSetupWrites ==
    [][StoreChanged => (ExplicitUpdate \/ FirstRunSetup)]_vars

\* C11's case: a manual check found an update, the user declined to store
\* it, and the file and the configuration are as they were loaded
C11_Witness ==
    /\ pc = "exit" /\ ManualRun
    /\ compared /\ has_update
    /\ "updated" \notin printed
    /\ write_log = <<>>
    /\ file.kind = "toml" /\ config = file
    /\ get_device_config(config).current_firmware_version = current_version

(***************************************************************************)
(* Claims about the comparator, checked under SpecCompare.                 *)
(***************************************************************************)
\* a well-formed version: optional leading v, N(.N)*, optional _N
DottedNumeric(s) ==
    /\ s # <<>>
    /\ s[1] \in Digit /\ s[Len(s)] \in Digit
    /\ \A i \in 1..Len(s) : s[i] \in Digit \cup {"."}
    /\ \A i \in 1..(Len(s) - 1) : ~(s[i] = "." /\ s[i + 1] = ".")

Unprefixed(s) == IF s # <<>> /\ s[1] = "v" THEN Tail(s) ELSE s

WellFormed(s) ==
    /\ IsStr(s)
    /\ LET t == Unprefixed(s)
           u == IndexOf(t, "_")
       IN IF u = 0 THEN DottedNumeric(t)
          ELSE /\ DottedNumeric(SubSeq(t, 1, u - 1))
               /\ u < Len(t)
               /\ AllDigits(SubSeq(t, u + 1, Len(t)))

\* the numbers of a dotted string, left to right
RECURSIVE Components(_)
Components(s) ==
    IF "." \notin Range(s) THEN <<ToInt(s)>>
    ELSE LET d == CHOOSE i \in 1..Len(s) : s[i] = "." /\ \A j \in (i + 1)..Len(s) : s[j] # "."
         IN Append(Components(SubSeq(s, 1, d - 1)), ToInt(SubSeq(s, d + 1, Len(s))))

\* the normalized release.build tuple of a well-formed version
Normalized(s) ==
    LET t == Unprefixed(s)
        u == IndexOf(t, "_")
    IN IF u = 0 THEN Components(t)
       ELSE Append(Components(SubSeq(t, 1, u - 1)), ToInt(SubSeq(t, u + 1, Len(t))))

Padded(t, i) == IF i <= Len(t) THEN t[i] ELSE 0
Longest(a, b) == IF Len(a) < Len(b) THEN Len(b) ELSE Len(a)

\* a > b, component by component from the left, the shorter padded with zero
NumericGreater(a, b) ==
    \E i \in 1..Longest(a, b) :
        /\ Padded(a, i) > Padded(b, i)
        /\ \A j \in 1..(i - 1) : Padded(a, j) = Padded(b, j)

NumericEqual(a, b) == \A i \in 1..Longest(a, b) : Padded(a, i) = Padded(b, i)

\* C2: on well-formed versions compare_versions agrees with the numeric,
\* zero-padded, component-wise order of the normalized release.build tuples:
\* has_update exactly when latest > current, and the message is the new
\* version / latest version / newer than listed one for >, =, <.
C2_CompareAgreesWithNumericOrder ==
    (h_pc = "done" /\ WellFormed(h_in.current) /\ WellFormed(h_in.latest)) =>
        LET c == Normalized(h_in.current)
            l == Normalized(h_in.latest)
        IN /\ ~h_out.exc
           /\ h_out.has_update = NumericGreater(l, c)
           /\ h_out.message.kind =
                  (IF NumericGreater(l, c) THEN "new_version"
                   ELSE IF NumericEqual(l, c) THEN "latest"
                   ELSE "newer_than_listed")

\* C2's case: a current version without build suffix, a longer latest version
\* with one, and an update reported
C2_Witness ==
    /\ h_pc = "done"
    /\ WellFormed(h_in.current) /\ WellFormed(h_in.latest)
    /\ "_" \in Range(h_in.latest) /\ "_" \notin Range(h_in.current)
    /\ Len(Normalized(h_in.current)) < Len(Normalized(h_in.latest))
    /\ h_out.has_update
    /\ h_out.message.kind = "new_version"

\* whether the try block of compare_versions raises on these arguments
ParsingRaises(current, latest) == ~IsStr(current) \/ ~IsStr(latest)

\* C7: compare_versions never propagates an exception: it returns a verdict
\* for every pair of arguments, and the verdict is "no update" when latest is
\* absent and when parsing or comparing raised.
C7_CompareNeverRaises ==
    h_pc = "done" =>
        /\ ~h_out.exc
        /\ h_out.has_update \in BOOLEAN
        /\ ~Truthy(h_in.latest) =>
               (~h_out.has_update /\ h_out.message.kind = "no_latest")
        /\ (Truthy(h_in.latest) /\ ParsingRaises(h_in.current, h_in.latest)) =>
               (~h_out.has_update /\ h_out.message.kind = "error")

\* C7's case: the current version is missing, a latest version was found, and
\* the comparator answered with its error message
C7_Witness ==
    /\ h_pc = "done"
    /\ h_in.current = None
    /\ WellFormed(h_in.latest)
    /\ ~h_out.exc /\ ~h_out.has_update
    /\ h_out.message.kind = "error"

\* the string without its v's, its first _ read as a dot
Cleaned(s) ==
    LET t == SelectSeq(s, LAMBDA c : c # "v")
        u == IndexOf(t, "_")
    IN IF u = 0 THEN t ELSE [i \in 1..Len(t) |-> IF i = u THEN "." ELSE t[i]]

\* a string for which parse_version_string falls back to the string
Unparseable(s) == IsStr(s) /\ ~DottedNumeric(Cleaned(s))

\* C13: when latest is present and the parse of current or of latest falls
\* back to the string, compare_versions reports an update exactly when the
\* two arguments differ as strings, whatever their order, with the message
\* that shows both arguments.
C13_FallbackComparesRawStrings ==
    (/\ h_pc = "done"
     /\ IsStr(h_in.current) /\ IsStr(h_in.latest) /\ h_in.latest # EmptyStr
     /\ Unparseable(h_in.current) \/ Unparseable(h_in.latest)) =>
        /\ ~h_out.exc
        /\ h_out.has_update = (h_in.current # h_in.latest)
        /\ h_out.message = Msg("raw", h_in.current, h_in.latest)

\* C13's case: neither version can be parsed, the two clean to the same
\* string but differ as given, and an update is reported
C13_Witness ==
    /\ h_pc = "done"
    /\ Unparseable(h_in.current) /\ Unparseable(h_in.latest)
    /\ h_in.current # h_in.latest
    /\ Cleaned(h_in.current) = Cleaned(h_in.latest)
    /\ h_out.has_update
    /\ h_out.message.kind = "raw"

(***************************************************************************)
(* Claims about parse_version_string, checked under SpecParse.             *)
(***************************************************************************)
\* C12: for every well-formed version string without a leading v,
\* parse_version_string gives a structured version for the string and for
\* the string behind a v, and the two are equal: the release.build numbers
\* of the string.
C12_LeadingVIsIgnored ==
    (h_pc = "done" /\ WellFormed(h_in) /\ h_in[1] # "v") =>
        /\ ~h_out.parsed.exc /\ ~h_out.parsed_no_v.exc
        /\ h_out.parsed.val.kind = "Version"
        /\ h_out.parsed_no_v.val.kind = "Version"
        /\ h_out.equal
        /\ h_out.parsed.val.release = Normalized(h_in)
        /\ h_out.parsed_no_v.val.release = Normalized(h_in)

\* C12's case: a version with a build suffix, parsed with and without the v
C12_Witness ==
    /\ h_pc = "done"
    /\ WellFormed(h_in) /\ h_in[1] # "v"
    /\ "_" \in Range(h_in)
    /\ h_out.equal
    /\ h_out.parsed.val.kind = "Version"
    /\ Len(h_out.parsed.val.release) = 2

(***************************************************************************)
(* Claims about the API response, checked under SpecExtract.               *)
(***************************************************************************)
\* the first data entry holds a non-empty list of complete firmware records
HasFirmwares(data) ==
    /\ data.tag = "dict" /\ data.has_data /\ data.data # <<>>
    /\ data.data[1].tag = "dict" /\ data.data[1].has_firmwares
    /\ data.data[1].firmwares # <<>>
    /\ \A i \in 1..Len(data.data[1].firmwares) :
           /\ data.data[1].firmwares[i].has_version
           /\ data.data[1].firmwares[i].has_updated_at

\* C5: when the first data entry has a non-empty firmwares list, the value
\* returned is, unmodified, the version of a record of that list whose
\* updated_at no record of the list exceeds.
C5_ExtractReturnsNewestRecord ==
    (h_pc = "done" /\ HasFirmwares(h_in)) =>
        LET f == h_in.data[1].firmwares IN
        /\ ~h_out.exc
        /\ \E i \in 1..Len(f) :
               /\ \A j \in 1..Len(f) : f[j].updated_at <= f[i].updated_at
               /\ h_out.val = f[i].version

\* C5's case: two records, the later one newer and of another version, and
\* the later one's version returned
C5_Witness ==
    /\ h_pc = "done" /\ HasFirmwares(h_in)
    /\ Len(h_in.data[1].firmwares) >= 2
    /\ h_in.data[1].firmwares[1].updated_at < h_in.data[1].firmwares[2].updated_at
    /\ h_in.data[1].firmwares[1].version # h_in.data[1].firmwares[2].version
    /\ h_out.val = h_in.data[1].firmwares[2].version

\* the positions of the records that hold the maximum updated_at
Newest(f) == {i \in 1..Len(f) : \A j \in 1..Len(f) : f[j].updated_at <= f[i].updated_at}

FirstOf(S) == CHOOSE i \in S : \A j \in S : i <= j
LastOf(S) == CHOOSE i \in S : \A j \in S : j <= i

\* C14 as stated: when several records share the maximum updated_at, the
\* version returned is the one of the last of them in list order.
C14_LastNewestRecordWins ==
    (h_pc = "done" /\ HasFirmwares(h_in)) =>
        LET f == h_in.data[1].firmwares IN
        h_out.val = f[LastOf(Newest(f))].version

\* C14 as amended: when several records share the maximum updated_at, the
\* version returned is the one of the first of them in list order.
C14_FirstNewestRecordWins ==
    (h_pc = "done" /\ HasFirmwares(h_in)) =>
        LET f == h_in.data[1].firmwares IN
        /\ ~h_out.exc
        /\ h_out.val = f[FirstOf(Newest(f))].version

\* C14's case: two records of different versions share the maximum
\* updated_at, and the version of the earlier one is returned
C14_Witness ==
    /\ h_pc = "done" /\ HasFirmwares(h_in)
    /\ LET f == h_in.data[1].firmwares IN
       /\ Cardinality(Newest(f)) >= 2
       /\ f[FirstOf(Newest(f))].version # f[LastOf(Newest(f))].version
       /\ h_out.val = f[FirstOf(Newest(f))].version

(***************************************************************************)
(* Claims about the fallback strategies, checked under SpecScan.           *)
(***************************************************************************)
\* the matches of the preferred pattern, v?(\d+\.\d+\.\d+\.\d+_\d+)
PreferredMatches(text) == FindallBuildText(text)

\* the digits of a match, without '.' and '_', read as an integer
AsInteger(m) == ToInt(SelectSeq(m, LAMBDA c : c \in Digit))

\* C15: when the page holds several matches of the preferred pattern, the
\* version a fallback strategy returns is the match whose digits form the
\* largest integer.
C15_LargestIntegerWins ==
    (h_pc = "done" /\ Len(PreferredMatches(h_in.text)) >= 2) =>
        LET m == PreferredMatches(h_in.text) IN
        /\ h_out \in Range(m)
        /\ \A i \in 1..Len(m) : AsInteger(m[i]) <= AsInteger(h_out)

(***************************************************************************)
(* Claims about the configuration object, checked under SpecUpdate.        *)
(***************************************************************************)
\* C16: after any sequence of update_firmware_version calls the device
\* configuration reports the version of the last call, and the model, the
\* hardware version and the settings are as they were loaded, whether or
\* not the writes of the file succeeded.
C16_UpdateChangesOnlyVersion ==
    h_pc = "ready" =>
        /\ get_device_config(config).model = get_device_config(h_in).model
        /\ get_device_config(config).hardware_version
               = get_device_config(h_in).hardware_version
        /\ config.settings = h_in.settings
        /\ write_log # <<>> =>
               get_device_config(config).current_firmware_version = h_out
        /\ write_log = <<>> => config = h_in

\* C16's case: two calls with different versions on a loaded configuration,
\* the first write succeeded and the second did not
C16_Witness ==
    /\ h_pc = "ready"
    /\ write_log = <<"ok", "not_opened">>
    /\ h_out = V_1_1_0
    /\ get_device_config(config).current_firmware_version = V_1_1_0
    /\ get_device_config(file).current_firmware_version = V_1_0_2
    /\ get_device_config(config).model = get_device_config(h_in).model
    /\ get_device_config(h_in).model # None

====
